---- MODULE Spec2Model ----
(***************************************************************************)
(* Economic-indicator snapshot store of KAFKA2306/m2.                      *)
(*                                                                         *)
(* Two variants of the updater live in the repository and both are         *)
(* modelled: the modular one (refactored_update_data.py on top of          *)
(* src/data/fetcher.py) and the single-file one (update_data.py).          *)
(*                                                                         *)
(*   SpecFetch  applies the source clients (pure functions of the upstream *)
(*              responses) to every response of a bounded set.             *)
(*   Spec       runs one update cycle (append or backfill), step by step,  *)
(*              against the durable store data.yml, with interrupts and    *)
(*              write failures.                                            *)
(*   SpecAppend an append run that nothing disturbs, under weak fairness.  *)
(*   SpecPanel  applies the panel builder and the current-value fetch of   *)
(*              all indicators to sparse upstream answers.                 *)
(*   SpecStore  loads, appends to, trims and saves data.yml as YAML text.  *)
(*   SpecCycles runs successive whole cycles on one store.                 *)
(*   SpecRace   runs two append cycles at once on one store.               *)
(*   SpecLoop   runs one cycle one network call at a time, under fairness.  *)
(***************************************************************************)
EXTENDS Integers, Sequences, FiniteSets, TLC

VARIABLES
    variant,     \* "refactored" (refactored_update_data.py) or "legacy" (update_data.py)
    store,       \* the durable file data.yml
    clock,       \* wall clock (UTC), in ticks
    cycle,       \* number of process runs started so far
    pc,          \* position of the running process in run_update / main
    backfill,    \* args.backfill of the running process
    records,     \* the local list `records` of the running process
    exit_code,   \* exit status of the last finished process
    prior,       \* content of the store when the running process started
    loaded,      \* what load returned in this run
    fetched,     \* per indicator, the fetched (scaled) value before the stored-value fallback
    snapshot,    \* the snapshot assembled in this run
    runStart,    \* clock value at which the running process started
    written,     \* number of times this run opened the store for writing
    fn,          \* SpecFetch: the source-client function that was applied
    request,     \* SpecFetch: its input (the upstream responses)
    result,      \* SpecFetch: its return value
    attempts     \* SpecFetch: the network calls it made, in order

runVars   == <<variant, store, clock, cycle, pc, backfill, records, exit_code,
               prior, loaded, fetched, snapshot, runStart, written>>
fetchVars == <<fn, request, result, attempts>>
vars      == <<variant, store, clock, cycle, pc, backfill, records, exit_code,
               prior, loaded, fetched, snapshot, runStart, written,
               fn, request, result, attempts>>

(***************************************************************************)
(* Values.  A Python value is a one-field record, so that values of        *)
(* different types compare unequal.                                         *)
(***************************************************************************)
None     == [none |-> TRUE]            \* Python None / YAML null
NaN      == [nan |-> TRUE]             \* float('nan'): a blank CSV cell, a NaN Close
Float(n) == [float |-> n]              \* a finite float
Dot      == [str |-> "."]              \* FRED's marker of a missing observation
Text     == [str |-> "n/a"]            \* any other non-numeric text
Raised   == [raised |-> TRUE]          \* an exception that leaves the function

IsFloat(v) == DOMAIN v = {"float"}
IsStr(v)   == DOMAIN v = {"str"}

RawValues == {0, 10}                   \* the finite values upstream can quote

\* float(x) of Python: a float (NaN included) is itself, text that is no number raises
float(x) == IF IsStr(x) \/ x = None THEN Raised ELSE x

\* pd.isna(value)
isna(x) == x = NaN \/ x = None

(***************************************************************************)
(* IndicatorCatalog                                                        *)
(***************************************************************************)
FRED_SERIES   == <<"M2SL">>
YAHOO_TICKERS == <<"DXY", "TNX">>

\* symbols of a quote-kind indicator, first preferred
symbols(name) == IF name = "DXY" THEN <<"DX-Y.NYB", "DX=F">> ELSE <<"^TNX">>

get_all_indicators == FRED_SERIES \o YAHOO_TICKERS

Indicators == {get_all_indicators[i] : i \in 1..Len(get_all_indicators)}

Symbols == UNION {{symbols(n)[i] : i \in 1..Len(symbols(n))} :
                  n \in {YAHOO_TICKERS[j] : j \in 1..Len(YAHOO_TICKERS)}}

\* indicator_config.get('display_scale', 1) of the modular variant
display_scale(ind) == IF ind = "M2SL" THEN 2 ELSE 1

(***************************************************************************)
(* Upstream responses                                                      *)
(***************************************************************************)
\* the macro feed's CSV, as far as the current-value fetch reads it:
\* the last cell of the last column
FredResponses ==
    {[kind |-> "error"], [kind |-> "empty"]}
    \cup {[kind |-> "rows", cell |-> c] :
            c \in {Float(v) : v \in RawValues} \cup {NaN, Dot, Text}}

\* ticker.history(period="1d"): the last Close
PrimaryResponses ==
    {[kind |-> "error"], [kind |-> "empty"]}
    \cup {[kind |-> "rows", cell |-> c] : c \in {Float(v) : v \in RawValues} \cup {NaN}}

\* the direct quote endpoint: regularMarketPrice of the first result
DirectResponses ==
    {[kind |-> "error"], [kind |-> "empty"]}
    \cup {[kind |-> "rows", cell |-> Float(v)] : v \in RawValues}

QuoteResponses == [primary : PrimaryResponses, direct : DirectResponses]

(***************************************************************************)
(* SourceClient, current values                                            *)
(***************************************************************************)
\* the try block of fetch_fred_current
fetch_fred_current_try(resp) ==
    IF resp.kind = "error" THEN Raised                     \* pd.read_csv raises
    ELSE IF resp.kind = "empty" THEN None                  \* df.empty
    ELSE IF isna(resp.cell) \/ resp.cell = Dot THEN None   \* non-numeric values
    ELSE float(resp.cell)

FetchFredCurrentNoExcept(resp) == fetch_fred_current_try(resp)

fetch_fred_current(resp) ==
    LET r == fetch_fred_current_try(resp)
    IN  IF r = Raised THEN None ELSE r                     \* except Exception: return None

\* the try block of get_fred
get_fred_try(resp) ==
    IF resp.kind = "error" THEN Raised
    ELSE IF resp.kind = "empty" THEN Raised                \* df.iloc[-1]: IndexError
    ELSE float(resp.cell)

get_fred(resp) ==
    LET r == get_fred_try(resp)
    IN  IF r = Raised THEN None ELSE r                     \* except Exception: return None

\* One pass of the loop body of fetch_yahoo_current for one symbol:
\* returned = TRUE when the body executes a return statement.
yahoo_symbol(sym, resp) ==
    LET first == <<[symbol |-> sym, endpoint |-> "yfinance"]>>
        both  == Append(first, [symbol |-> sym, endpoint |-> "direct"])
    IN  IF resp.primary.kind = "rows"
        THEN [returned |-> TRUE, value |-> float(resp.primary.cell), calls |-> first]
        ELSE IF resp.primary.kind = "empty"
        THEN [returned |-> FALSE, value |-> None, calls |-> first]
        ELSE \* except Exception: try the direct API
             IF resp.direct.kind = "rows"
             THEN [returned |-> TRUE, value |-> float(resp.direct.cell), calls |-> both]
             ELSE [returned |-> FALSE, value |-> None, calls |-> both]

\* One pass of the loop body of get_yahoo for one symbol
get_yahoo_symbol(sym, resp) ==
    LET first == <<[symbol |-> sym, endpoint |-> "yfinance"]>>
        both  == Append(first, [symbol |-> sym, endpoint |-> "direct"])
    IN  IF resp.primary.kind = "rows"
        THEN [returned |-> TRUE, value |-> float(resp.primary.cell), calls |-> first]
        ELSE \* hist["Close"].iloc[-1] raises on an empty frame as well
             IF resp.direct.kind = "rows"
             THEN [returned |-> TRUE, value |-> float(resp.direct.cell), calls |-> both]
             ELSE [returned |-> FALSE, value |-> None, calls |-> both]

\* for symbol in symbols[i..]: ... ; return None
RECURSIVE yahoo_loop(_, _, _, _, _)
yahoo_loop(legacy, syms, up, i, calls) ==
    IF i > Len(syms) THEN [value |-> None, calls |-> calls]
    ELSE LET b == IF legacy THEN get_yahoo_symbol(syms[i], up[syms[i]])
                  ELSE yahoo_symbol(syms[i], up[syms[i]])
         IN  IF b.returned THEN [value |-> b.value, calls |-> calls \o b.calls]
             ELSE yahoo_loop(legacy, syms, up, i + 1, calls \o b.calls)

\* a loop that keeps going after a return value is at hand: the last success wins
RECURSIVE YahooLoopLastWins(_, _, _, _, _)
YahooLoopLastWins(legacy, syms, up, i, calls) ==
    IF i > Len(syms) THEN [value |-> None, calls |-> calls]
    ELSE LET b == IF legacy THEN get_yahoo_symbol(syms[i], up[syms[i]])
                  ELSE yahoo_symbol(syms[i], up[syms[i]])
             rest == YahooLoopLastWins(legacy, syms, up, i + 1, calls \o b.calls)
         IN  IF b.returned /\ rest.value = None
             THEN [value |-> b.value, calls |-> rest.calls]
             ELSE rest

FetchYahooCurrentLastWins(syms, up) == YahooLoopLastWins(FALSE, syms, up, 1, <<>>)

fetch_yahoo_current(syms, up) == yahoo_loop(FALSE, syms, up, 1, <<>>)

get_yahoo(syms, up) == yahoo_loop(TRUE, syms, up, 1, <<>>)

(***************************************************************************)
(* Time.  The clock counts ticks; a day has TicksPerDay of them.           *)
(***************************************************************************)
TicksPerDay  == 2
MaxAhead     == 3                      \* ticks the clock can pass beyond the window
HISTORY_DAYS == 2                      \* retention window in days (365 * 5 in the source, scaled down)
MaxRunTicks  == 1                      \* a run takes at most this long

MaxClock == HISTORY_DAYS * TicksPerDay + MaxAhead
MaxDay   == MaxClock \div TicksPerDay
Days   == 0..MaxDay

\* datetime.date() of a clock value
date(t) == t \div TicksPerDay

\* timedelta(days=n)
timedelta(n) == n * TicksPerDay

(***************************************************************************)
(* SourceClient, histories.  A series maps each day it holds to a cell.    *)
(***************************************************************************)
Restrict(f, S) == [d \in S |-> f[d]]

PartialFns(D, C) == UNION {[S -> C] : S \in SUBSET D}

\* pd.to_numeric(errors="coerce"): text that is no number becomes NaN
to_numeric(c) == IF IsStr(c) THEN NaN ELSE c

\* Series.dropna()
dropna(s) == Restrict(s, {d \in DOMAIN s : ~isna(s[d])})

\* the try block of fetch_fred_history
fetch_fred_history_try(resp, start_date) ==
    IF resp.kind = "error" THEN Raised           \* requests / raise_for_status / read_csv
    ELSE IF resp.kind = "nodate" THEN None       \* neither DATE nor observation_date
    ELSE LET numeric == dropna([d \in DOMAIN resp.obs |-> to_numeric(resp.obs[d])])
         IN  [series |-> Restrict(numeric, {d \in DOMAIN numeric : d >= start_date})]

fetch_fred_history(resp, start_date) ==
    LET r == fetch_fred_history_try(resp, start_date)
    IN  IF r = Raised THEN None ELSE r           \* except Exception: return None

\* get_fred_history of update_data.py: the same steps
get_fred_history(resp, start) == fetch_fred_history(resp, start)

\* for symbol in symbols[i..]: the first non-empty history wins; return None
RECURSIVE yahoo_history_loop(_, _, _)
yahoo_history_loop(syms, up, i) ==
    IF i > Len(syms) THEN None
    ELSE IF up[syms[i]].kind = "rows"            \* not hist.empty and "Close" in hist
         THEN [series |-> up[syms[i]].obs]
         ELSE yahoo_history_loop(syms, up, i + 1)  \* empty, or except: continue

FetchYahooHistoryEmptySeries(syms, up) ==
    LET r == yahoo_history_loop(syms, up, 1)
    IN  IF r = None THEN [series |-> <<>>] ELSE r

fetch_yahoo_history(syms, up) == yahoo_history_loop(syms, up, 1)

\* get_yahoo_history of update_data.py: the same steps
get_yahoo_history(syms, up) == fetch_yahoo_history(syms, up)

\* histories the macro feed can answer with
FredHistoryResponses ==
    {[kind |-> "error"], [kind |-> "nodate"]}
    \cup {[kind |-> "rows", obs |-> o] : o \in PartialFns(Days, {Float(10), NaN, Dot})}

\* histories the quote feed can answer with, per symbol
QuoteHistoryResponses ==
    {[kind |-> "error"], [kind |-> "empty"]}
    \cup {[kind |-> "rows", obs |-> o] :
            o \in PartialFns(Days, {Float(10), NaN}) \ {<<>>}}

(***************************************************************************)
(* The durable store.  A Python dict is a function from its keys.          *)
(***************************************************************************)
Absent    == [file |-> "absent"]                    \* no data.yml
Corrupt   == [file |-> "corrupt"]                   \* data.yml is no YAML document
EmptyFile == [file |-> "empty"]                     \* data.yml just opened with 'w'
Yaml(l)   == [file |-> "list", data |-> l]          \* a YAML list of records
Legacy1(r) == [file |-> "dict", data |-> r]         \* a single mapping (old format)

\* d.get(k)
dict_get(d, k) == IF k \in DOMAIN d THEN d[k] ELSE None

\* datetime.isoformat() + "Z"
isoformat_Z(t) == [date |-> date(t), time |-> t % TicksPerDay, z |-> "Z"]

\* datetime.fromisoformat(ts.replace("Z", ""))
fromisoformat(ts) == ts.date * TicksPerDay + ts.time

\* a loader that takes anything that is not a list for an empty log
LoadExistingDataDropsDict(st) ==
    IF st = Absent THEN [data |-> <<>>]
    ELSE IF st = Corrupt THEN [data |-> <<>>]
    ELSE IF st = EmptyFile THEN [data |-> <<>>]
    ELSE IF st.file = "dict" THEN [data |-> <<>>]
    ELSE [data |-> st.data]

\* load_existing_data of the modular variant
load_existing_data(st) ==
    IF st = Absent THEN [data |-> <<>>]             \* no existing data file
    ELSE IF st = Corrupt THEN [data |-> <<>>]       \* except Exception: return []
    ELSE IF st = EmptyFile THEN [data |-> <<>>]     \* yaml.safe_load(f) or []
    ELSE IF st.file = "dict" THEN [data |-> <<st.data>>]   \* isinstance(data, dict)
    ELSE [data |-> st.data]

\* load_existing of update_data.py: nothing catches the parser's exception
load_existing(st) ==
    IF st = Absent THEN [data |-> <<>>]
    ELSE IF st = Corrupt THEN Raised
    ELSE IF st = EmptyFile THEN [data |-> <<>>]
    ELSE IF st.file = "dict" THEN [data |-> <<st.data>>]
    ELSE [data |-> st.data]

\* a trim that keeps only what is strictly younger than the cutoff
TrimStrict(recs, now) ==
    SelectSeq(recs, LAMBDA r :
        fromisoformat(r["timestamp"]) > now - timedelta(HISTORY_DAYS))

\* trim_history: the records at or after utcnow() - timedelta(days=history_days)
trim_history(recs, now) ==
    SelectSeq(recs, LAMBDA r :
        fromisoformat(r["timestamp"]) >= now - timedelta(HISTORY_DAYS))

(***************************************************************************)
(* Current values of all indicators                                        *)
(***************************************************************************)
\* value * display_scale (NaN stays NaN)
scaled(v, s) == IF IsFloat(v) THEN Float(v.float * s) ELSE v

\* value / 10.0 (upstream quotes are multiples of ten here, so the quotient is exact)
div10(v) == IF IsFloat(v) THEN Float(v.float \div 10) ELSE v

\* a pass that substitutes the stored value first and scales whatever it holds
CurrentValueScalesFallback(value, scale, fallback, id) ==
    LET v == IF value = None /\ DOMAIN fallback # {} THEN dict_get(fallback, id) ELSE value
    IN  IF v # None /\ scale # 1 THEN scaled(v, scale) ELSE v

\* one pass of either loop of fetch_all_current
current_value(value, scale, fallback, id) ==
    LET v == IF value # None /\ scale # 1 THEN scaled(value, scale) ELSE value
    IN  IF v = None /\ DOMAIN fallback # {} THEN dict_get(fallback, id) ELSE v

\* the value before the stored-value fallback
fetched_value(legacy, env, id) ==
    IF legacy
    THEN IF id = "M2SL" THEN get_fred(env.fred[id])
         ELSE LET v == get_yahoo(symbols(id), env.quote).value
              IN  IF id = "TNX" /\ v # None THEN div10(v) ELSE v
    ELSE LET v == IF id = "M2SL" THEN fetch_fred_current(env.fred[id])
                  ELSE fetch_yahoo_current(symbols(id), env.quote).value
         IN  IF v # None /\ display_scale(id) # 1 THEN scaled(v, display_scale(id)) ELSE v

\* a fallback that is consulted first: the stored value shadows a fresh one
FetchAllCurrentStoredFirst(env, fallback_data) ==
    [id \in Indicators |->
        IF dict_get(fallback_data, id) # None THEN dict_get(fallback_data, id)
        ELSE fetched_value(FALSE, env, id)]

\* a fetch that gives up with an exception when no indicator could be fetched
FetchAllCurrentRaisesOnTotalFailure(env, fallback_data) ==
    IF \A id \in Indicators : fetched_value(FALSE, env, id) = None THEN Raised
    ELSE [id \in Indicators |->
            LET v == fetched_value(FALSE, env, id)
            IN  IF v = None THEN dict_get(fallback_data, id) ELSE v]

\* a fetch that never looks at the stored record
FetchAllCurrentNoFallback(env, fallback_data) ==
    [id \in Indicators |-> fetched_value(FALSE, env, id)]

\* fetch_all_current(fallback_data)
fetch_all_current(env, fallback_data) ==
    [id \in Indicators |->
        IF id = "M2SL"
        THEN current_value(fetch_fred_current(env.fred[id]), display_scale(id),
                           fallback_data, id)
        ELSE current_value(fetch_yahoo_current(symbols(id), env.quote).value,
                           display_scale(id), fallback_data, id)]

\* the loops of main() of update_data.py that fill `entry`
main_entry(env, last) ==
    [id \in Indicators |->
        LET v == fetched_value(TRUE, env, id)
        IN  IF v = None THEN dict_get(last, id) ELSE v]

\* {**current_values, "timestamp": timestamp}
with_timestamp(values, ts) ==
    [k \in DOMAIN values \cup {"timestamp"} |->
        IF k = "timestamp" THEN ts ELSE values[k]]

(***************************************************************************)
(* PanelBuilder: fetch_all_history / backfill_last_5y                      *)
(***************************************************************************)
\* df[col] = series: the series aligned on the grid, NaN where it has no entry
aligned(series, grid) ==
    [d \in grid |-> IF d \in DOMAIN series THEN series[d] ELSE NaN]

\* a history that is handed on as fetched: neither scale nor correction applied
HistoryOfUnscaled(legacy, henv, id, start_date) ==
    IF id = "M2SL"
    THEN (IF legacy THEN get_fred_history(henv.fred[id], start_date)
          ELSE fetch_fred_history(henv.fred[id], start_date))
    ELSE (IF legacy THEN get_yahoo_history(symbols(id), henv.quote)
          ELSE fetch_yahoo_history(symbols(id), henv.quote))

\* the history of one indicator as the loops see it: None or a series, scaled
history_of(legacy, henv, id, start_date) ==
    LET s == IF id = "M2SL"
             THEN (IF legacy THEN get_fred_history(henv.fred[id], start_date)
                   ELSE fetch_fred_history(henv.fred[id], start_date))
             ELSE (IF legacy THEN get_yahoo_history(symbols(id), henv.quote)
                   ELSE fetch_yahoo_history(symbols(id), henv.quote))
    IN  IF s = None THEN None
        ELSE IF legacy
        THEN [series |-> [d \in DOMAIN s.series |->
                 IF id = "TNX" THEN div10(s.series[d]) ELSE s.series[d]]]
        ELSE [series |-> [d \in DOMAIN s.series |->
                 IF display_scale(id) # 1 THEN scaled(s.series[d], display_scale(id))
                 ELSE s.series[d]]]

\* a column that is filled over the days of the fetched series before it is
\* cut to the grid
ColumnFilledBeforeAligned(legacy, henv, id, start_date, grid) ==
    LET h == history_of(legacy, henv, id, start_date)
    IN  IF h # None /\ DOMAIN h.series # {}
        THEN LET wide == aligned(h.series, grid \cup DOMAIN h.series)
                 known(d) == {e \in DOMAIN wide : e <= d /\ ~isna(wide[e])}
             IN  [d \in grid |->
                    IF known(d) = {} THEN NaN
                    ELSE wide[CHOOSE e \in known(d) : \A g \in known(d) : g <= e]]
        ELSE [d \in grid |-> NaN]

\* the column of one indicator before fill: the aligned series, or an all-NaN
\* column when the fetch gave nothing ("ensure all expected columns exist")
column(legacy, henv, id, start_date, grid) ==
    LET h == history_of(legacy, henv, id, start_date)
    IN  IF h # None /\ DOMAIN h.series # {}          \* series is not None and not series.empty
        THEN aligned(h.series, grid)
        ELSE [d \in grid |-> NaN]

\* a fill without the forward pass: every gap is filled from the later side
FfillOmitted(col) == col

\* Series.ffill(): the last value at or before d
ffill(col) ==
    [d \in DOMAIN col |->
        LET known == {e \in DOMAIN col : e <= d /\ ~isna(col[e])}
        IN  IF known = {} THEN NaN
            ELSE col[CHOOSE e \in known : \A g \in known : g <= e]]

\* a fill that stops after the forward pass: leading NaNs stay
BfillOmitted(col) == col

\* Series.bfill(): the first value at or after d
bfill(col) ==
    [d \in DOMAIN col |->
        LET known == {e \in DOMAIN col : e >= d /\ ~isna(col[e])}
        IN  IF known = {} THEN NaN
            ELSE col[CHOOSE e \in known : \A g \in known : e <= g]]

\* a builder that keeps the all-NaN rows
FetchAllHistoryKeepsNullRows(legacy, henv, start_date, today) ==
    LET grid == start_date..today
    IN  [d \in grid |-> [id \in Indicators |->
            bfill(ffill(column(legacy, henv, id, start_date, grid)))[d]]]

\* a builder that drops a row as soon as one of its columns is NaN: dropna(how='any')
FetchAllHistoryDropsAnyNull(legacy, henv, start_date, today) ==
    LET grid   == start_date..today
        filled == [id \in Indicators |->
                      bfill(ffill(column(legacy, henv, id, start_date, grid)))]
        kept   == {d \in grid : \A id \in Indicators : ~isna(filled[id][d])}
    IN  [d \in kept |-> [id \in Indicators |-> filled[id][d]]]

\* a builder without the "ensure all expected columns exist" step: an
\* indicator whose fetch gave nothing has no column
FetchAllHistoryNoEnsure(legacy, henv, start_date, today) ==
    LET grid    == start_date..today
        present == {id \in Indicators :
                       LET h == history_of(legacy, henv, id, start_date)
                       IN  h # None /\ DOMAIN h.series # {}}
        filled  == [id \in present |->
                       bfill(ffill(column(legacy, henv, id, start_date, grid)))]
        kept    == {d \in grid : \E id \in present : ~isna(filled[id][d])}
    IN  [d \in kept |-> [id \in present |-> filled[id][d]]]

\* fetch_all_history(start_date): the frame as a function day -> row
fetch_all_history(legacy, henv, start_date, today) ==
    LET grid   == start_date..today                  \* pd.date_range(start, end, freq="D")
        filled == [id \in Indicators |->
                      bfill(ffill(column(legacy, henv, id, start_date, grid)))]
        kept   == {d \in grid : \E id \in Indicators : ~isna(filled[id][d])}  \* dropna(how='all')
    IN  [d \in kept |-> [id \in Indicators |-> filled[id][d]]]

\* the rows of a frame in index order
RECURSIVE SortedDays(_)
SortedDays(S) ==
    IF S = {} THEN <<>>
    ELSE LET m == CHOOSE x \in S : \A y \in S : x <= y
         IN  <<m>> \o SortedDays(S \ {m})

\* datetime.combine(idx.date(), datetime.min.time()).isoformat() + "Z"
midnight_Z(d) == [date |-> d, time |-> 0, z |-> "Z"]

\* for idx, row in df.iterrows(): one entry per row
flatten(df) ==
    LET days == SortedDays(DOMAIN df)
    IN  [i \in 1..Len(days) |->
            with_timestamp([col \in DOMAIN df[days[i]] |->            \* row.items()
                               IF isna(df[days[i]][col]) THEN None ELSE float(df[days[i]][col])],
                           midnight_Z(days[i]))]

(***************************************************************************)
(* Orchestrator: one process run of run_update / main                      *)
(***************************************************************************)
Window == timedelta(HISTORY_DAYS)

\* a stored value that no fetch of this model produces
Stored == Float(30)

StoredValues ==
    { [id \in Indicators |-> Stored],
      [id \in Indicators |-> None],
      [id \in {"M2SL"} |-> Stored] }                 \* written under a smaller catalog

\* records an earlier run can have left: ascending, stamped before the run starts
StoredRecords(now) ==
    {with_timestamp(v, isoformat_Z(t)) : v \in StoredValues, t \in {0, 1, now - 1}}

StoredLogs(now) ==
    {<<>>}
    \cup {<<r>> : r \in StoredRecords(now)}
    \cup {<<a, b>> : a \in {r \in StoredRecords(now) : fromisoformat(r["timestamp"]) = 0},
                     b \in {r \in StoredRecords(now) :
                              /\ fromisoformat(r["timestamp"]) > 0
                              /\ r["M2SL"] = Stored}}

Stores(now) ==
    {Absent, Corrupt}
    \cup {Yaml(l) : l \in StoredLogs(now)}
    \cup {Legacy1(with_timestamp([id \in Indicators |-> Stored], isoformat_Z(now - 1)))}

\* what upstream answers during one append cycle
CycleQuoteResponses ==
    {[primary |-> [kind |-> "error"], direct |-> [kind |-> "error"]],
     [primary |-> [kind |-> "rows", cell |-> Float(10)], direct |-> [kind |-> "error"]]}

CycleEnvs ==
    [fred  : [{"M2SL"} -> {[kind |-> "error"],
                           [kind |-> "rows", cell |-> Float(10)],
                           [kind |-> "rows", cell |-> NaN]}],
     quote : [Symbols -> CycleQuoteResponses]]

\* what upstream answers during one backfill: every observation carries a
\* value that names its day
DayValue(d) == Float(10 * (d + 1))

CycleSeries(S) == [d \in S |-> DayValue(d)]

HistoryEnvs ==
    [fred  : [{"M2SL"} -> {[kind |-> "error"]}
                          \cup {[kind |-> "rows", obs |-> CycleSeries(S)] : S \in SUBSET Days}],
     quote : [Symbols -> {[kind |-> "error"],
                          [kind |-> "rows", obs |-> CycleSeries({MaxDay - 1})]}]]

Running == pc \notin {"NotStarted", "Exited"}

Init ==
    /\ variant \in {"refactored", "legacy"}
    /\ clock \in {Window, Window + 1}
    /\ store \in Stores(clock)
    /\ cycle = 0
    /\ pc = "NotStarted"
    /\ backfill = FALSE
    /\ records = <<>>
    /\ exit_code = 0
    /\ prior = store
    /\ loaded = <<>>
    /\ fetched = <<>>
    /\ snapshot = <<>>
    /\ runStart = clock
    /\ written = 0
    /\ fn = "none" /\ request = None /\ result = None /\ attempts = <<>>

\* the process starts: parser.parse_args()
Start ==
    /\ pc = "NotStarted"
    /\ \E b \in BOOLEAN :
         /\ backfill' = b
         /\ pc' = IF b THEN "Backfilling" ELSE "Loading"
    /\ cycle' = cycle + 1
    /\ prior' = store
    /\ runStart' = clock
    /\ records' = <<>> /\ loaded' = <<>> /\ fetched' = <<>> /\ snapshot' = <<>>
    /\ written' = 0
    /\ UNCHANGED <<variant, store, clock, exit_code>>
    /\ UNCHANGED fetchVars

\* time passes while the process runs
Tick ==
    /\ Running
    /\ clock < runStart + MaxRunTicks
    /\ clock' = clock + 1
    /\ UNCHANGED <<variant, store, cycle, pc, backfill, records, exit_code,
                   prior, loaded, fetched, snapshot, runStart, written>>
    /\ UNCHANGED fetchVars

\* run_update, append branch: records = self.load_existing_data()
LoadExistingData ==
    /\ pc = "Loading" /\ variant = "refactored"
    /\ records' = load_existing_data(store).data
    /\ loaded' = records'
    /\ pc' = "Fetching"
    /\ UNCHANGED <<variant, store, clock, cycle, backfill, exit_code,
                   prior, fetched, snapshot, runStart, written>>
    /\ UNCHANGED fetchVars

\* main of update_data.py: records = load_existing(); an exception ends the process
LoadExisting ==
    /\ pc = "Loading" /\ variant = "legacy"
    /\ IF load_existing(store) = Raised
       THEN /\ pc' = "Exited" /\ exit_code' = 1
            /\ UNCHANGED <<records, loaded>>
       ELSE /\ records' = load_existing(store).data
            /\ loaded' = records'
            /\ pc' = "Fetching"
            /\ UNCHANGED exit_code
    /\ UNCHANGED <<variant, store, clock, cycle, backfill,
                   prior, fetched, snapshot, runStart, written>>
    /\ UNCHANGED fetchVars

\* records[-1] if records else {}
last_or_empty(recs) == IF Len(recs) = 0 THEN <<>> ELSE recs[Len(recs)]

\* run_update: fallback_data = records[-1] if records else {};
\* snapshot = self.create_snapshot(fallback_data)
CreateSnapshot ==
    /\ pc = "Fetching" /\ variant = "refactored"
    /\ \E env \in CycleEnvs :
         LET current_values == fetch_all_current(env, last_or_empty(records))
         IN  /\ fetched' = [id \in Indicators |-> fetched_value(FALSE, env, id)]
             /\ IF current_values = Raised           \* nothing in run_update catches it
                THEN /\ pc' = "Exited" /\ exit_code' = 1
                     /\ UNCHANGED snapshot
                ELSE /\ snapshot' = with_timestamp(current_values, isoformat_Z(clock))
                     /\ pc' = "Merging"
                     /\ UNCHANGED exit_code
    /\ UNCHANGED <<variant, store, clock, cycle, backfill, records,
                   prior, loaded, runStart, written>>
    /\ UNCHANGED fetchVars

\* main of update_data.py: last = records[-1] if records else {}; entry = {...}
MainEntry ==
    /\ pc = "Fetching" /\ variant = "legacy"
    /\ \E env \in CycleEnvs :
         LET entry == main_entry(env, last_or_empty(records))
         IN  /\ fetched' = [id \in Indicators |-> fetched_value(TRUE, env, id)]
             /\ IF entry = Raised                    \* nothing in main catches it
                THEN /\ pc' = "Exited" /\ exit_code' = 1
                     /\ UNCHANGED snapshot
                ELSE /\ snapshot' = with_timestamp(entry, isoformat_Z(clock))
                     /\ pc' = "Merging"
                     /\ UNCHANGED exit_code
    /\ UNCHANGED <<variant, store, clock, cycle, backfill, records,
                   prior, loaded, runStart, written>>
    /\ UNCHANGED fetchVars

\* an append that writes the merged log through to the store before the trim
AppendSnapshotAndSave ==
    /\ pc = "Merging"
    /\ records' = Append(records, snapshot)
    /\ store' = Yaml(records')
    /\ pc' = "Trimming"
    /\ UNCHANGED <<variant, clock, cycle, backfill, exit_code,
                   prior, loaded, fetched, snapshot, runStart, written>>
    /\ UNCHANGED fetchVars

\* an append that overwrites the newest stored record instead of adding one
AppendSnapshotUpdatesLast ==
    /\ pc = "Merging"
    /\ records' = IF Len(records) = 0 THEN <<snapshot>>
                  ELSE [records EXCEPT ![Len(records)] = snapshot]
    /\ pc' = "Trimming"
    /\ UNCHANGED <<variant, store, clock, cycle, backfill, exit_code,
                   prior, loaded, fetched, snapshot, runStart, written>>
    /\ UNCHANGED fetchVars

\* records.append(snapshot)
AppendSnapshot ==
    /\ pc = "Merging"
    /\ records' = Append(records, snapshot)
    /\ pc' = "Trimming"
    /\ UNCHANGED <<variant, store, clock, cycle, backfill, exit_code,
                   prior, loaded, fetched, snapshot, runStart, written>>
    /\ UNCHANGED fetchVars

\* records = self.trim_history(records), in append mode and at the end of a backfill
TrimHistory ==
    /\ pc = "Trimming"
    /\ records' = trim_history(records, clock)
    /\ pc' = IF backfill THEN "Checking" ELSE "Saving"
    /\ UNCHANGED <<variant, store, clock, cycle, backfill, exit_code,
                   prior, loaded, fetched, snapshot, runStart, written>>
    /\ UNCHANGED fetchVars

\* a backfill that merges: the rebuilt records are added to the stored log
BackfillHistoryMerges ==
    /\ pc = "Backfilling"
    /\ \E henv \in HistoryEnvs :
         LET start_date == date(clock - Window)
             df == fetch_all_history(variant = "legacy", henv, start_date, date(clock))
         IN  /\ records' = load_existing_data(store).data
                              \o (IF DOMAIN df = {} THEN <<>> ELSE flatten(df))
             /\ fetched' = [id \in Indicators |->
                               history_of(variant = "legacy", henv, id, start_date)]
    /\ pc' = "Trimming"
    /\ UNCHANGED <<variant, store, clock, cycle, backfill, exit_code,
                   prior, loaded, snapshot, runStart, written>>
    /\ UNCHANGED fetchVars

\* backfill_history / backfill_last_5y up to the list of entries
BackfillHistory ==
    /\ pc = "Backfilling"
    /\ \E henv \in HistoryEnvs :
         LET start_date == date(clock - Window)
             df == fetch_all_history(variant = "legacy", henv, start_date, date(clock))
         IN  /\ records' = IF DOMAIN df = {} THEN <<>> ELSE flatten(df)   \* if df.empty: return []
             /\ fetched' = [id \in Indicators |->
                               history_of(variant = "legacy", henv, id, start_date)]
    /\ pc' = "Trimming"
    /\ UNCHANGED <<variant, store, clock, cycle, backfill, exit_code,
                   prior, loaded, snapshot, runStart, written>>
    /\ UNCHANGED fetchVars

\* if not records: ... return  (the process ends normally)
CheckBackfill ==
    /\ pc = "Checking"
    /\ IF Len(records) = 0
       THEN pc' = "Exited" /\ exit_code' = 0
       ELSE pc' = "Saving" /\ UNCHANGED exit_code
    /\ UNCHANGED <<variant, store, clock, cycle, backfill, records,
                   prior, loaded, fetched, snapshot, runStart, written>>
    /\ UNCHANGED fetchVars

\* open(self.data_file, 'w'): the file is truncated in place
SaveOpen ==
    /\ pc = "Saving"
    /\ store' = EmptyFile
    /\ written' = written + 1
    /\ pc' = "Writing"
    /\ UNCHANGED <<variant, clock, cycle, backfill, records, exit_code,
                   prior, loaded, fetched, snapshot, runStart>>
    /\ UNCHANGED fetchVars

\* open() raises (the file cannot be opened for writing): the process exits 1
SaveOpenFails ==
    /\ pc = "Saving"
    /\ pc' = "Exited" /\ exit_code' = 1
    /\ UNCHANGED <<variant, store, clock, cycle, backfill, records,
                   prior, loaded, fetched, snapshot, runStart, written>>
    /\ UNCHANGED fetchVars

\* yaml.safe_dump(records, f, sort_keys=False) runs to its end; the run is complete
SaveDump ==
    /\ pc = "Writing"
    /\ store' = Yaml(records)
    /\ pc' = "Exited" /\ exit_code' = 0
    /\ UNCHANGED <<variant, clock, cycle, backfill, records,
                   prior, loaded, fetched, snapshot, runStart, written>>
    /\ UNCHANGED fetchVars

\* the dump stops after k records (write error, or the process is killed)
SaveDumpFails ==
    /\ pc = "Writing"
    /\ \E k \in 0..(Len(records) - 1) :
         store' = IF k = 0 THEN EmptyFile ELSE Yaml(SubSeq(records, 1, k))
    /\ pc' = "Exited" /\ exit_code' = 1
    /\ UNCHANGED <<variant, clock, cycle, backfill, records,
                   prior, loaded, fetched, snapshot, runStart, written>>
    /\ UNCHANGED fetchVars

\* KeyboardInterrupt before the store is opened: sys.exit(1)
Interrupt ==
    /\ Running /\ pc # "Writing"
    /\ pc' = "Exited" /\ exit_code' = 1
    /\ UNCHANGED <<variant, store, clock, cycle, backfill, records,
                   prior, loaded, fetched, snapshot, runStart, written>>
    /\ UNCHANGED fetchVars

Next ==
    \/ Start
    \/ Tick
    \/ LoadExistingData
    \/ LoadExisting
    \/ CreateSnapshot
    \/ MainEntry
    \/ AppendSnapshot
    \/ TrimHistory
    \/ BackfillHistory
    \/ CheckBackfill
    \/ SaveOpen
    \/ SaveOpenFails
    \/ SaveDump
    \/ SaveDumpFails
    \/ Interrupt

Spec == Init /\ [][Next]_vars

\* the process is started without --backfill
StartAppend == Start /\ ~backfill'

\* the steps of an append run that nothing disturbs
NextAppend ==
    \/ StartAppend
    \/ Tick
    \/ LoadExistingData
    \/ LoadExisting
    \/ CreateSnapshot
    \/ MainEntry
    \/ AppendSnapshot
    \/ TrimHistory
    \/ SaveOpen
    \/ SaveDump

\* An append run on a writable disk that nobody interrupts; the process is
\* synchronous and single-threaded, so each enabled step is eventually taken.
SpecAppend == Init /\ [][NextAppend]_vars /\ WF_vars(NextAppend)

(***************************************************************************)
(* SpecFetch: every source-client function applied to every response.      *)
(***************************************************************************)
SymbolSet(n) == {symbols(n)[i] : i \in 1..Len(symbols(n))}

Tickers == {YAHOO_TICKERS[j] : j \in 1..Len(YAHOO_TICKERS)}

NoRun ==
    /\ variant = "refactored" /\ store = Absent /\ clock = 0 /\ cycle = 0
    /\ pc = "NotStarted" /\ backfill = FALSE /\ records = <<>> /\ exit_code = 0
    /\ prior = Absent /\ loaded = <<>> /\ fetched = <<>> /\ snapshot = <<>>
    /\ runStart = 0 /\ written = 0

InitFetch ==
    /\ NoRun
    /\ fn = "none" /\ request = None /\ result = None /\ attempts = <<>>

CallFetchFredCurrent ==
    /\ fn = "none"
    /\ \E r \in FredResponses :
         /\ request' = [resp |-> r]
         /\ result' = fetch_fred_current(r)
    /\ fn' = "fetch_fred_current"
    /\ UNCHANGED attempts
    /\ UNCHANGED runVars

CallGetFred ==
    /\ fn = "none"
    /\ \E r \in FredResponses :
         /\ request' = [resp |-> r]
         /\ result' = get_fred(r)
    /\ fn' = "get_fred"
    /\ UNCHANGED attempts
    /\ UNCHANGED runVars

CallFetchYahooCurrent ==
    /\ fn = "none"
    /\ \E n \in Tickers : \E up \in [SymbolSet(n) -> QuoteResponses] :
         LET r == fetch_yahoo_current(symbols(n), up)
         IN  /\ request' = [symbols |-> symbols(n), up |-> up]
             /\ result' = r.value
             /\ attempts' = r.calls
    /\ fn' = "fetch_yahoo_current"
    /\ UNCHANGED runVars

CallGetYahoo ==
    /\ fn = "none"
    /\ \E n \in Tickers : \E up \in [SymbolSet(n) -> QuoteResponses] :
         LET r == get_yahoo(symbols(n), up)
         IN  /\ request' = [symbols |-> symbols(n), up |-> up]
             /\ result' = r.value
             /\ attempts' = r.calls
    /\ fn' = "get_yahoo"
    /\ UNCHANGED runVars

CallFetchFredHistory ==
    /\ fn = "none"
    /\ \E r \in FredHistoryResponses : \E start \in Days :
         /\ request' = [resp |-> r, start_date |-> start]
         /\ result' = fetch_fred_history(r, start)
    /\ fn' = "fetch_fred_history"
    /\ UNCHANGED attempts
    /\ UNCHANGED runVars

CallFetchYahooHistory ==
    /\ fn = "none"
    /\ \E up \in [SymbolSet("DXY") -> QuoteHistoryResponses] :
         /\ request' = [symbols |-> symbols("DXY"), up |-> up]
         /\ result' = fetch_yahoo_history(symbols("DXY"), up)
    /\ fn' = "fetch_yahoo_history"
    /\ UNCHANGED attempts
    /\ UNCHANGED runVars

NextFetch ==
    \/ CallFetchFredCurrent
    \/ CallGetFred
    \/ CallFetchYahooCurrent
    \/ CallGetYahoo
    \/ CallFetchFredHistory
    \/ CallFetchYahooHistory

SpecFetch == InitFetch /\ [][NextFetch]_vars

(***************************************************************************)
(* SpecPanel: the panel builder applied to sparse, differently sampled     *)
(* histories over every grid of the bounded calendar.                      *)
(***************************************************************************)
\* the macro feed: any subset of days, each with the missing marker or with a
\* value that names its day, so that the direction of a fill shows
PanelFredResponses ==
    {[kind |-> "error"], [kind |-> "nodate"]}
    \cup {[kind |-> "rows", obs |-> [d \in S |-> IF d \in M THEN Dot ELSE DayValue(d)]] :
            S \in SUBSET Days, M \in SUBSET Days}

\* the quote feed, per symbol: sparse series, one of them with NaN closes
PanelQuoteResponses(sym) ==
    {[kind |-> "error"]}
    \cup (IF sym = "DX-Y.NYB"
          THEN {[kind |-> "empty"],
                [kind |-> "rows", obs |-> [d \in {1} |-> Float(10)]],
                [kind |-> "rows", obs |-> [d \in {0, 2} |-> IF d = 0 THEN NaN ELSE Float(20)]]}
          ELSE IF sym = "DX=F"
          THEN {[kind |-> "rows", obs |-> [d \in {MaxDay} |-> Float(10)]]}
          ELSE {[kind |-> "rows", obs |-> [d \in {0, MaxDay} |-> IF d = 0 THEN Float(10) ELSE Float(20)]],
                [kind |-> "rows", obs |-> [d \in {2} |-> NaN]]})

PanelEnvs ==
    {[fred |-> [id \in {"M2SL"} |-> f], quote |-> q] :
        f \in PanelFredResponses,
        q \in {g \in [Symbols -> UNION {PanelQuoteResponses(y) : y \in Symbols}] :
                  \A y \in Symbols : g[y] \in PanelQuoteResponses(y)}}

\* no process runs; either variant's builder is the one under test
InitPanel ==
    /\ variant \in {"refactored", "legacy"}
    /\ store = Absent /\ clock = 0 /\ cycle = 0
    /\ pc = "NotStarted" /\ backfill = FALSE /\ records = <<>> /\ exit_code = 0
    /\ prior = Absent /\ loaded = <<>> /\ fetched = <<>> /\ snapshot = <<>>
    /\ runStart = 0 /\ written = 0
    /\ fn = "none" /\ request = None /\ result = None /\ attempts = <<>>

\* fetch_all_history(start_date) on a day `today`, then the loop of
\* backfill_history / backfill_last_5y over its rows
CallFetchAllHistory ==
    /\ fn = "none"
    /\ \E henv \in PanelEnvs : \E start \in Days : \E today \in start..MaxDay :
         LET legacy == variant = "legacy"
             df     == fetch_all_history(legacy, henv, start, today)
         IN  /\ request' = [legacy |-> legacy, henv |-> henv,
                            start_date |-> start, today |-> today]
             /\ result' = [frame |-> df,
                           records |-> IF DOMAIN df = {} THEN <<>> ELSE flatten(df)]
    /\ fn' = "fetch_all_history"
    /\ UNCHANGED attempts
    /\ UNCHANGED runVars

\* what upstream answers to the current-value requests of one cycle
PanelCurrentEnvs ==
    [fred  : [{"M2SL"} -> {[kind |-> "error"]}
                          \cup {[kind |-> "rows", cell |-> c] :
                                  c \in {Float(0), Float(10), NaN, Dot}}],
     quote : [Symbols -> [primary : {[kind |-> "error"],
                                     [kind |-> "rows", cell |-> Float(0)],
                                     [kind |-> "rows", cell |-> Float(10)]},
                          direct  : {[kind |-> "error"],
                                     [kind |-> "rows", cell |-> Float(20)]}]]]

\* fetch_all_current() / the loops of main() with nothing stored to fall back on
CallFetchAllCurrent ==
    /\ fn = "none"
    /\ \E env \in PanelCurrentEnvs :
         LET legacy == variant = "legacy"
         IN  /\ request' = [legacy |-> legacy, env |-> env]
             /\ result' = [values |-> IF legacy THEN main_entry(env, <<>>)
                                      ELSE fetch_all_current(env, <<>>)]
    /\ fn' = "fetch_all_current"
    /\ UNCHANGED attempts
    /\ UNCHANGED runVars

\* the ordered candidate identifiers the catalog gives a macro-kind indicator
fred_candidates(id) == <<id, "M2">>

\* the current value of a macro-kind indicator as fetch_all_current / main
\* obtain it: one request, for the series id itself, then the scale
CallFetchMacroCurrent ==
    /\ fn = "none"
    /\ \E id \in {FRED_SERIES[i] : i \in 1..Len(FRED_SERIES)} :
       \E up \in [{fred_candidates(id)[i] : i \in 1..Len(fred_candidates(id))} -> FredResponses] :
         LET legacy == variant = "legacy"
         IN  /\ request' = [legacy |-> legacy, id |-> id,
                            candidates |-> fred_candidates(id), up |-> up,
                            scale |-> IF legacy THEN 1 ELSE display_scale(id)]
             /\ result' = IF legacy THEN get_fred(up[id])
                          ELSE current_value(fetch_fred_current(up[id]),
                                             display_scale(id), <<>>, id)
             /\ attempts' = <<[symbol |-> id, endpoint |-> "fred"]>>
    /\ fn' = "fetch_macro_current"
    /\ UNCHANGED runVars

NextPanel ==
    \/ CallFetchAllHistory
    \/ CallFetchAllCurrent
    \/ CallFetchMacroCurrent

SpecPanel == InitPanel /\ [][NextPanel]_vars

(***************************************************************************)
(* SpecLoop: one process run with the fetch loops taken one network call   *)
(* at a time.  request is the position of the loops (indicator, candidate  *)
(* symbol, endpoint), fetched the outcome per indicator, attempts the      *)
(* calls made so far.  What a call answers is chosen when it is made.      *)
(***************************************************************************)
\* the loops are at the i-th indicator, before its first call; past the last
\* indicator the loops are over
LoopAt(i) ==
    IF i > Len(get_all_indicators) THEN [i |-> i, k |-> 1, endpoint |-> "done"]
    ELSE [i |-> i, k |-> 1,
          endpoint |-> IF i <= Len(FRED_SERIES) THEN "fred" ELSE "yfinance"]

current_id == get_all_indicators[request.i]

InitLoop ==
    /\ variant \in {"refactored", "legacy"}
    /\ store = Absent /\ clock = Window /\ cycle = 0
    /\ pc = "NotStarted" /\ backfill = FALSE /\ records = <<>> /\ exit_code = 0
    /\ prior = Absent /\ loaded = <<>> /\ snapshot = <<>>
    /\ fetched = [id \in Indicators |-> "pending"]
    /\ runStart = Window /\ written = 0
    /\ fn = "none" /\ request = LoopAt(1) /\ result = None /\ attempts = <<>>

\* the process starts in either mode and enters the first loop
LoopStart ==
    /\ pc = "NotStarted"
    /\ backfill' \in BOOLEAN
    /\ cycle' = cycle + 1
    /\ pc' = "Fetching"
    /\ UNCHANGED <<variant, store, clock, records, exit_code, prior, loaded,
                   fetched, snapshot, runStart, written>>
    /\ UNCHANGED fetchVars

\* the current indicator got its value: the loops go on with the next indicator
Returned(outcome) ==
    /\ fetched' = [fetched EXCEPT ![current_id] = outcome]
    /\ request' = LoopAt(request.i + 1)
    /\ pc' = IF request.i + 1 > Len(get_all_indicators) THEN "Saving" ELSE "Fetching"

\* `continue`, or the end of the loop body: the next symbol, or return None
NextSymbol ==
    IF request.k < Len(symbols(current_id))
    THEN /\ request' = [request EXCEPT !.k = request.k + 1, !.endpoint = "yfinance"]
         /\ UNCHANGED <<fetched, pc>>
    ELSE Returned("unavailable")

\* fetch_fred_current / fetch_fred_history / get_fred: one request, value or None
LoopFred ==
    /\ pc = "Fetching" /\ request.endpoint = "fred"
    /\ attempts' = Append(attempts, [symbol |-> current_id, endpoint |-> "fred"])
    /\ \E answer \in {"value", "raises"} :
         Returned(IF answer = "value" THEN "value" ELSE "unavailable")
    /\ UNCHANGED <<variant, store, clock, cycle, backfill, records, exit_code,
                   prior, loaded, snapshot, runStart, written, fn, result>>

\* yf.Ticker(symbol).history(...) for the current symbol
LoopPrimary ==
    /\ pc = "Fetching" /\ request.endpoint = "yfinance"
    /\ attempts' = Append(attempts, [symbol |-> symbols(current_id)[request.k], endpoint |-> "yfinance"])
    /\ \E answer \in {"value", "empty", "raises"} :
         IF answer = "value" THEN Returned("value")
         ELSE IF backfill THEN NextSymbol           \* the history loops have no second endpoint
         ELSE IF answer = "raises" \/ variant = "legacy"   \* iloc[-1] of an empty frame raises
         THEN /\ request' = [request EXCEPT !.endpoint = "direct"]
              /\ UNCHANGED <<fetched, pc>>
         ELSE NextSymbol
    /\ UNCHANGED <<variant, store, clock, cycle, backfill, records, exit_code,
                   prior, loaded, snapshot, runStart, written, fn, result>>

\* a direct request that is made a second time when it fails
LoopDirectRetries ==
    /\ pc = "Fetching" /\ request.endpoint = "direct"
    /\ attempts' = Append(attempts, [symbol |-> symbols(current_id)[request.k], endpoint |-> "direct"])
    /\ \E answer \in {"value", "raises"} :
         IF answer = "value" THEN Returned("value")
         ELSE IF \A i \in 1..Len(attempts) :
                    attempts[i] # [symbol |-> symbols(current_id)[request.k], endpoint |-> "direct"]
         THEN UNCHANGED <<request, fetched, pc>>
         ELSE NextSymbol
    /\ UNCHANGED <<variant, store, clock, cycle, backfill, records, exit_code,
                   prior, loaded, snapshot, runStart, written, fn, result>>

\* requests.get(fallback_url?symbols=symbol) inside the except branch
LoopDirect ==
    /\ pc = "Fetching" /\ request.endpoint = "direct"
    /\ attempts' = Append(attempts, [symbol |-> symbols(current_id)[request.k], endpoint |-> "direct"])
    /\ \E answer \in {"value", "raises"} :
         IF answer = "value" THEN Returned("value") ELSE NextSymbol
    /\ UNCHANGED <<variant, store, clock, cycle, backfill, records, exit_code,
                   prior, loaded, snapshot, runStart, written, fn, result>>

\* a backfill without any record: run_update / main return before the save
LoopEmptyBackfill ==
    /\ pc = "Saving" /\ backfill
    /\ \A id \in Indicators : fetched[id] = "unavailable"
    /\ pc' = "Exited" /\ exit_code' = 0
    /\ UNCHANGED <<variant, store, clock, cycle, backfill, records,
                   prior, loaded, fetched, snapshot, runStart, written>>
    /\ UNCHANGED fetchVars

\* save_data / save_history succeeds: the run is complete
LoopSave ==
    /\ pc = "Saving"
    /\ ~(backfill /\ \A id \in Indicators : fetched[id] = "unavailable")
    /\ written' = written + 1
    /\ pc' = "Exited" /\ exit_code' = 0
    /\ UNCHANGED <<variant, store, clock, cycle, backfill, records,
                   prior, loaded, fetched, snapshot, runStart>>
    /\ UNCHANGED fetchVars

\* save_data raises: main logs and calls sys.exit(1)
LoopSaveFails ==
    /\ pc = "Saving"
    /\ ~(backfill /\ \A id \in Indicators : fetched[id] = "unavailable")
    /\ pc' = "Exited" /\ exit_code' = 1
    /\ UNCHANGED <<variant, store, clock, cycle, backfill, records,
                   prior, loaded, fetched, snapshot, runStart, written>>
    /\ UNCHANGED fetchVars

NextLoop ==
    \/ LoopStart
    \/ LoopFred
    \/ LoopPrimary
    \/ LoopDirect
    \/ LoopEmptyBackfill
    \/ LoopSave
    \/ LoopSaveFails

\* the process is synchronous and every call has a timeout: an enabled step is taken
SpecLoop == InitLoop /\ [][NextLoop]_vars /\ WF_vars(NextLoop)

(***************************************************************************)
(* SpecStore: data.yml as YAML text.  A scalar is written with a style     *)
(* (plain or single-quoted) and a text; the text is kept by its lexical    *)
(* class, which is what the loader's implicit resolver looks at.           *)
(***************************************************************************)
NullText      == [lex |-> "null"]                     \* null
NanText       == [lex |-> ".nan"]                     \* .nan
FloatText(n)  == [lex |-> "float", digits |-> n]      \* repr(x): digits with a '.'
StampText(ts) == [lex |-> "timestamp", stamp |-> ts]  \* YYYY-MM-DDTHH:MM:SS[.ffffff]Z
WordText(w)   == [lex |-> "word", word |-> w]         \* any other text

\* a datetime object, which is what a plain timestamp scalar is loaded as
DateTime(ts) == [datetime |-> ts]

\* the text of a Python str
str_text(v) == IF IsStr(v) THEN WordText(v.str) ELSE StampText(v)

\* the str a text stands for
text_str(t) == IF t.lex = "timestamp" THEN t.stamp ELSE [str |-> t.word]

\* the implicit resolver of the loader: what a plain scalar is taken for
resolve(t) ==
    CASE t.lex = "null"      -> None
      [] t.lex = ".nan"      -> NaN
      [] t.lex = "float"     -> Float(t.digits)
      [] t.lex = "timestamp" -> DateTime(t.stamp)
      [] OTHER               -> text_str(t)

\* a writer that never quotes: every scalar goes out plain
RepresentPlain(v) ==
    IF v = None THEN [style |-> "plain", text |-> NullText]
    ELSE IF v = NaN THEN [style |-> "plain", text |-> NanText]
    ELSE IF IsFloat(v) THEN [style |-> "plain", text |-> FloatText(v.float)]
    ELSE [style |-> "plain", text |-> str_text(v)]

\* SafeRepresenter + emitter: None, float and str scalars; a str whose plain
\* text would resolve to something else than a str is single-quoted
represent(v) ==
    IF v = None THEN [style |-> "plain", text |-> NullText]
    ELSE IF v = NaN THEN [style |-> "plain", text |-> NanText]
    ELSE IF IsFloat(v) THEN [style |-> "plain", text |-> FloatText(v.float)]
    ELSE [style |-> IF resolve(str_text(v)) = v THEN "plain" ELSE "single",
          text  |-> str_text(v)]

\* SafeConstructor: a plain scalar by its resolved tag, a quoted one as str
construct(node) ==
    IF node.style = "plain" THEN resolve(node.text) ELSE text_str(node.text)

represent_dict(r)   == [k \in DOMAIN r |-> represent(r[k])]
construct_mapping(m) == [k \in DOMAIN m |-> construct(m[k])]

\* yaml.safe_dump(records, f, sort_keys=False): a block sequence of mappings
safe_dump(recs) ==
    [kind |-> "seq", items |-> [i \in 1..Len(recs) |-> represent_dict(recs[i])]]

\* the document of a single mapping (the old format of data.yml)
DumpOne(r) == [kind |-> "map", items |-> represent_dict(r)]

NoFile      == [exists |-> FALSE]
FileOf(doc) == [exists |-> TRUE, doc |-> doc]
EmptyDoc    == [kind |-> "empty"]                     \* zero bytes
GarbageDoc  == [kind |-> "garbage"]                   \* no YAML document

\* os.path.exists + yaml.safe_load of the file, as the store the loaders see
parsed(file) ==
    IF ~file.exists THEN Absent
    ELSE IF file.doc.kind = "garbage" THEN Corrupt    \* safe_load raises
    ELSE IF file.doc.kind = "empty" THEN EmptyFile    \* safe_load returns None
    ELSE IF file.doc.kind = "map" THEN Legacy1(construct_mapping(file.doc.items))
    ELSE Yaml([i \in 1..Len(file.doc.items) |-> construct_mapping(file.doc.items[i])])

\* load_existing_data / load_existing on a file
load_file(legacy, file) ==
    IF legacy THEN load_existing(parsed(file)) ELSE load_existing_data(parsed(file))

\* values and timestamps of the logs SpecStore saves and loads
LogValues == {None, Float(0), Float(10)}
LogStamps == {isoformat_Z(t) : t \in 0..TicksPerDay}

LogRecords ==
    {with_timestamp(v, ts) : v \in [Indicators -> LogValues], ts \in LogStamps}
    \cup {with_timestamp([id \in {"M2SL"} |-> Float(10)], ts) : ts \in LogStamps}

\* valid logs: ascending sequences of at most two records
ValidLogs ==
    {<<>>} \cup {<<r>> : r \in LogRecords}
    \cup {<<a, b>> : a \in {r \in LogRecords : r["timestamp"] = isoformat_Z(0)},
                     b \in {r \in LogRecords : r["timestamp"] # isoformat_Z(0)}}

\* save(log), then load()
CallSaveThenLoad ==
    /\ fn = "none"
    /\ \E log \in ValidLogs :
         /\ request' = [log |-> log]
         /\ result' = load_file(variant = "legacy", FileOf(safe_dump(log)))
    /\ fn' = "save_load"
    /\ UNCHANGED attempts
    /\ UNCHANGED runVars

\* load() of a store that holds a valid log, then save of what was loaded
CallLoadThenSave ==
    /\ fn = "none"
    /\ \E log \in ValidLogs :
         LET file == FileOf(safe_dump(log))
         IN  /\ request' = [file |-> file]
             /\ result' = [file |-> FileOf(safe_dump(load_file(variant = "legacy", file).data))]
    /\ fn' = "load_save"
    /\ UNCHANGED attempts
    /\ UNCHANGED runVars

\* load() of whatever data.yml is: missing, empty, no YAML, one mapping, a list
CallLoad ==
    /\ fn = "none"
    /\ \E file \in {NoFile, FileOf(EmptyDoc), FileOf(GarbageDoc)}
                   \cup {FileOf(DumpOne(r)) : r \in LogRecords}
                   \cup {FileOf(safe_dump(<<r>>)) : r \in LogRecords} :
         /\ request' = [file |-> file]
         /\ result' = load_file(variant = "legacy", file)
    /\ fn' = "load"
    /\ UNCHANGED attempts
    /\ UNCHANGED runVars

\* an upstream on which every request fails
FailedEnv ==
    [fred  |-> [id \in {"M2SL"} |-> [kind |-> "error"]],
     quote |-> [y \in Symbols |-> [primary |-> [kind |-> "error"],
                                   direct  |-> [kind |-> "error"]]]]

\* the append branch of run_update / main at time `now` on a store that holds
\* a valid log: load, snapshot, records.append(snapshot), trim_history
CallAppend ==
    /\ fn = "none"
    /\ \E log \in ValidLogs : \E now \in 0..MaxClock :
         LET legacy == variant = "legacy"
             recs   == load_file(legacy, FileOf(safe_dump(log))).data
             values == IF legacy THEN main_entry(FailedEnv, last_or_empty(recs))
                       ELSE fetch_all_current(FailedEnv, last_or_empty(recs))
             snap   == with_timestamp(values, isoformat_Z(now))
         IN  /\ request' = [log |-> log, now |-> now]
             /\ result' = [data |-> trim_history(Append(recs, snap), now)]
    /\ fn' = "append"
    /\ UNCHANGED attempts
    /\ UNCHANGED runVars

NextStore ==
    \/ CallSaveThenLoad
    \/ CallLoadThenSave
    \/ CallLoad
    \/ CallAppend

SpecStore == InitPanel /\ [][NextStore]_vars

(***************************************************************************)
(* SpecCycles: successive process runs on one store, each a whole append   *)
(* or backfill run that nothing disturbs.  Runs are sequential and take    *)
(* time: the clock advances between two runs.                              *)
(***************************************************************************)
\* the host's offset from UTC, in ticks
UtcOffsets == {-1, 0, 1}

\* datetime.now().date() on a host whose local time is UTC + utcoffset
local_date(t, utcoffset) == date(t + utcoffset)

\* what upstream answers during the cycles: everything fails, everything
\* answers, or the macro feed ends in a missing value while the quotes fail
CyclesEnvs ==
    {FailedEnv,
     [fred  |-> [id \in {"M2SL"} |-> [kind |-> "rows", cell |-> Float(10)]],
      quote |-> [y \in Symbols |-> [primary |-> [kind |-> "rows", cell |-> Float(10)],
                                    direct  |-> [kind |-> "error"]]]],
     [fred  |-> [id \in {"M2SL"} |-> [kind |-> "rows", cell |-> NaN]],
      quote |-> FailedEnv.quote]}

CyclesHistoryEnvs ==
    [fred  : [{"M2SL"} -> {[kind |-> "error"], [kind |-> "rows", obs |-> CycleSeries(Days)]}],
     quote : {[y \in Symbols |-> [kind |-> "error"]],
              [y \in Symbols |-> [kind |-> "rows", obs |-> CycleSeries({MaxDay - 1})]]}]

\* a fresh deployment: no data.yml yet; the host's time zone is fixed
InitCycles ==
    /\ variant \in {"refactored", "legacy"}
    /\ store = Absent /\ clock = Window /\ cycle = 0
    /\ pc = "NotStarted" /\ backfill = FALSE /\ records = <<>> /\ exit_code = 0
    /\ prior = Absent /\ loaded = <<>> /\ fetched = <<>> /\ snapshot = <<>>
    /\ runStart = Window /\ written = 0
    /\ fn = "none" /\ result = None /\ attempts = <<>>
    /\ request \in {[utcoffset |-> o] : o \in UtcOffsets}

\* a whole run without --backfill: load, snapshot, append, trim, save
RunAppend ==
    /\ pc = "NotStarted"
    /\ \E env \in CyclesEnvs :
         LET legacy == variant = "legacy"
             recs   == IF legacy THEN load_existing(store).data
                       ELSE load_existing_data(store).data
             values == IF legacy THEN main_entry(env, last_or_empty(recs))
                       ELSE fetch_all_current(env, last_or_empty(recs))
             snap   == with_timestamp(values, isoformat_Z(clock))
         IN  /\ loaded' = recs
             /\ fetched' = [id \in Indicators |-> fetched_value(legacy, env, id)]
             /\ snapshot' = snap
             /\ records' = trim_history(Append(recs, snap), clock)
             /\ store' = Yaml(records')
    /\ backfill' = FALSE
    /\ cycle' = cycle + 1 /\ runStart' = clock /\ prior' = store
    /\ written' = 1 /\ exit_code' = 0 /\ pc' = "Exited"
    /\ UNCHANGED <<variant, clock>>
    /\ UNCHANGED fetchVars

\* a backfill run that saves the flattened panel as it is, without the trim
RunBackfillUntrimmed ==
    /\ pc = "NotStarted"
    /\ \E henv \in CyclesHistoryEnvs :
         LET legacy     == variant = "legacy"
             start_date == date(clock - Window)
             today      == IF legacy THEN date(clock)                \* datetime.utcnow().date()
                           ELSE local_date(clock, request.utcoffset)  \* datetime.now().date()
             df         == fetch_all_history(legacy, henv, start_date, today)
             recs       == IF DOMAIN df = {} THEN <<>>
                           ELSE flatten(df)
         IN  /\ fetched' = [id \in Indicators |-> history_of(legacy, henv, id, start_date)]
             /\ records' = recs
             /\ IF Len(recs) = 0
                THEN UNCHANGED store /\ written' = 0
                ELSE store' = Yaml(recs) /\ written' = 1
    /\ backfill' = TRUE
    /\ cycle' = cycle + 1 /\ runStart' = clock /\ prior' = store
    /\ loaded' = <<>> /\ snapshot' = <<>>
    /\ exit_code' = 0 /\ pc' = "Exited"
    /\ UNCHANGED <<variant, clock>>
    /\ UNCHANGED fetchVars

\* a whole run with --backfill: build the panel, flatten, trim, save unless empty
RunBackfill ==
    /\ pc = "NotStarted"
    /\ \E henv \in CyclesHistoryEnvs :
         LET legacy     == variant = "legacy"
             start_date == date(clock - Window)
             today      == IF legacy THEN date(clock)                \* datetime.utcnow().date()
                           ELSE local_date(clock, request.utcoffset)  \* datetime.now().date()
             df         == fetch_all_history(legacy, henv, start_date, today)
             recs       == IF DOMAIN df = {} THEN <<>>
                           ELSE trim_history(flatten(df), clock)
         IN  /\ fetched' = [id \in Indicators |-> history_of(legacy, henv, id, start_date)]
             /\ records' = recs
             /\ IF Len(recs) = 0
                THEN UNCHANGED store /\ written' = 0
                ELSE store' = Yaml(recs) /\ written' = 1
    /\ backfill' = TRUE
    /\ cycle' = cycle + 1 /\ runStart' = clock /\ prior' = store
    /\ loaded' = <<>> /\ snapshot' = <<>>
    /\ exit_code' = 0 /\ pc' = "Exited"
    /\ UNCHANGED <<variant, clock>>
    /\ UNCHANGED fetchVars

\* time passes until the scheduler starts the next run
Advance ==
    /\ clock < MaxClock
    /\ clock' = clock + 1
    /\ pc' = "NotStarted"
    /\ UNCHANGED <<variant, store, cycle, backfill, records, exit_code,
                   prior, loaded, fetched, snapshot, runStart, written>>
    /\ UNCHANGED fetchVars

NextCycles ==
    \/ RunAppend
    \/ RunBackfill
    \/ Advance

SpecCycles == InitCycles /\ [][NextCycles]_vars

(***************************************************************************)
(* SpecRace: two append runs of the updater on one data.yml.  Nothing in   *)
(* the code locks the file, so the steps of the two processes interleave   *)
(* freely.  pc, loaded, snapshot and records are per process here, and     *)
(* attempts is the history of file operations.  The two open('w') handles  *)
(* are not held at the same time: overlapping writes are left out.         *)
(***************************************************************************)
Procs == {1, 2}

InitRace ==
    /\ variant \in {"refactored", "legacy"}
    /\ store \in {Absent,                          \* nothing yet, or one earlier record
                  Yaml(<<with_timestamp([id \in Indicators |-> Stored],
                                        isoformat_Z(Window - 1))>>)}
    /\ clock = Window /\ cycle = 0
    /\ pc = [p \in Procs |-> "NotStarted"] /\ backfill = FALSE
    /\ records = [p \in Procs |-> <<>>] /\ exit_code = 0
    /\ prior = store /\ loaded = [p \in Procs |-> <<>>] /\ fetched = <<>>
    /\ snapshot = [p \in Procs |-> None]
    /\ runStart = Window /\ written = 0
    /\ fn = "none" /\ request = None /\ result = None /\ attempts = <<>>

\* records = self.load_existing_data() / records = load_existing()
RaceLoad(p) ==
    /\ pc[p] = "NotStarted"
    /\ loaded' = [loaded EXCEPT ![p] = IF variant = "legacy" THEN load_existing(store).data
                                       ELSE load_existing_data(store).data]
    /\ pc' = [pc EXCEPT ![p] = "Loaded"]
    /\ attempts' = Append(attempts, [proc |-> p, op |-> "load"])
    /\ UNCHANGED <<variant, store, clock, cycle, backfill, records, exit_code,
                   prior, fetched, snapshot, runStart, written, fn, request, result>>

\* a process that forgets what it loaded: its log is the new snapshot alone
RaceSnapshotDropsLoaded(p) ==
    /\ pc[p] = "Loaded"
    /\ \E env \in CyclesEnvs :
         LET snap == with_timestamp(IF variant = "legacy"
                                    THEN main_entry(env, last_or_empty(loaded[p]))
                                    ELSE fetch_all_current(env, last_or_empty(loaded[p])),
                                    isoformat_Z(clock))
         IN  /\ snapshot' = [snapshot EXCEPT ![p] = snap]
             /\ records' = [records EXCEPT ![p] = trim_history(<<snap>>, clock)]
    /\ pc' = [pc EXCEPT ![p] = "Trimmed"]
    /\ UNCHANGED <<variant, store, clock, cycle, backfill, exit_code,
                   prior, loaded, fetched, runStart, written>>
    /\ UNCHANGED fetchVars

\* snapshot = create_snapshot(records[-1] if records else {}); records.append(snapshot);
\* records = trim_history(records)
RaceSnapshot(p) ==
    /\ pc[p] = "Loaded"
    /\ \E env \in CyclesEnvs :
         LET snap == with_timestamp(IF variant = "legacy"
                                    THEN main_entry(env, last_or_empty(loaded[p]))
                                    ELSE fetch_all_current(env, last_or_empty(loaded[p])),
                                    isoformat_Z(clock))
         IN  /\ snapshot' = [snapshot EXCEPT ![p] = snap]
             /\ records' = [records EXCEPT ![p] = trim_history(Append(loaded[p], snap), clock)]
    /\ pc' = [pc EXCEPT ![p] = "Trimmed"]
    /\ UNCHANGED <<variant, store, clock, cycle, backfill, exit_code,
                   prior, loaded, fetched, runStart, written>>
    /\ UNCHANGED fetchVars

\* with open(data_file, 'w') as f: the file is truncated
RaceSaveOpen(p) ==
    /\ pc[p] = "Trimmed"
    /\ \A q \in Procs : pc[q] # "Saving"
    /\ store' = EmptyFile
    /\ pc' = [pc EXCEPT ![p] = "Saving"]
    /\ attempts' = Append(attempts, [proc |-> p, op |-> "open"])
    /\ UNCHANGED <<variant, clock, cycle, backfill, records, exit_code,
                   prior, loaded, fetched, snapshot, runStart, written, fn, request, result>>

\* yaml.safe_dump(records, f, sort_keys=False), the file is closed, the process ends
RaceSaveDump(p) ==
    /\ pc[p] = "Saving"
    /\ store' = Yaml(records[p])
    /\ pc' = [pc EXCEPT ![p] = "Exited"]
    /\ written' = written + 1
    /\ attempts' = Append(attempts, [proc |-> p, op |-> "save"])
    /\ UNCHANGED <<variant, clock, cycle, backfill, records, exit_code,
                   prior, loaded, fetched, snapshot, runStart, fn, request, result>>

\* time passes while the processes run
RaceTick ==
    /\ clock < Window + MaxAhead
    /\ \E p \in Procs : pc[p] # "Exited"
    /\ clock' = clock + 1
    /\ UNCHANGED <<variant, store, cycle, pc, backfill, records, exit_code,
                   prior, loaded, fetched, snapshot, runStart, written>>
    /\ UNCHANGED fetchVars

NextRace ==
    \/ \E p \in Procs : RaceLoad(p)
    \/ \E p \in Procs : RaceSnapshot(p)
    \/ \E p \in Procs : RaceSaveOpen(p)
    \/ \E p \in Procs : RaceSaveDump(p)
    \/ RaceTick

SpecRace == InitRace /\ [][NextRace]_vars

(***************************************************************************)
(* Claims about the source clients (SpecFetch)                             *)
(***************************************************************************)
IsYahooCurrent == fn \in {"fetch_yahoo_current", "get_yahoo"}
IsFredCurrent  == fn \in {"fetch_fred_current", "get_fred"}

\* what one candidate yields on its own, in the variant that was called
Candidate(i) ==
    LET sym == request.symbols[i]
    IN  IF fn = "get_yahoo" THEN get_yahoo_symbol(sym, request.up[sym])
        ELSE yahoo_symbol(sym, request.up[sym])

Succeeding == {i \in 1..Len(request.symbols) : Candidate(i).returned}

\* position of a symbol in the declared order
Position(sym) == CHOOSE i \in 1..Len(request.symbols) : request.symbols[i] = sym

Attempted == {Position(attempts[k].symbol) : k \in 1..Len(attempts)}

\* C1: the current-value fetch over an ordered candidate list returns the value
\* of the first candidate, in declared order, whose fetch succeeds; candidates
\* are attempted in declared order, a later one only after every earlier one
\* failed, and none after the first success.
C1_FirstSuccessInOrder ==
    IsYahooCurrent =>
        /\ \A i \in Succeeding :
             (\A j \in Succeeding : i <= j) =>
                 /\ result = Candidate(i).value
                 /\ Attempted = 1..i
        /\ \A k \in 1..Len(attempts) : \A m \in 1..Len(attempts) :
             k < m => Position(attempts[k].symbol) <= Position(attempts[m].symbol)
        /\ \A i \in Attempted : \A j \in 1..(i - 1) : j \notin Succeeding

\* candidate 1 failed on both endpoints, candidate 2 answered 10, the fetch returned 10
C1_Witness ==
    /\ fn = "fetch_yahoo_current"
    /\ Len(request.symbols) = 2
    /\ request.up[request.symbols[1]].primary.kind = "error"
    /\ request.up[request.symbols[1]].direct.kind = "error"
    /\ request.up[request.symbols[2]].primary = [kind |-> "rows", cell |-> Float(10)]
    /\ result = Float(10)
    /\ Len(attempts) = 3

\* every response the function received was an error or an empty answer
AllResponsesFailed ==
    CASE IsFredCurrent -> request.resp.kind \in {"error", "empty"}
      [] IsYahooCurrent ->
            \A k \in 1..Len(attempts) :
                LET r == request.up[attempts[k].symbol]
                IN  IF attempts[k].endpoint = "yfinance"
                    THEN r.primary.kind \in {"error", "empty"}
                    ELSE r.direct.kind \in {"error", "empty"}
      [] fn = "fetch_fred_history" -> request.resp.kind = "error"
      [] fn = "fetch_yahoo_history" ->
            \A i \in 1..Len(request.symbols) :
                request.up[request.symbols[i]].kind \in {"error", "empty"}
      [] OTHER -> FALSE

C3_MissingMarkerIsNone ==
    /\ (IsFredCurrent /\ request.resp.kind = "rows" /\ request.resp.cell \in {Dot, NaN})
          => result = None
    /\ (IsYahooCurrent \/ IsFredCurrent) => result # NaN
    /\ (fn = "fetch_fred_history" /\ result # None)
          => \A d \in DOMAIN result.series :
                /\ IsFloat(result.series[d])
                /\ d \in DOMAIN request.resp.obs
                /\ result.series[d] = request.resp.obs[d]

(***************************************************************************)
(* Claims about the update cycle (Spec, SpecAppend)                        *)
(***************************************************************************)
Timestamp(r) == fromisoformat(r["timestamp"])

\* C4: a store that exists but cannot be parsed makes load fail fatally: once
\* an append run is past its load step it has exited non-zero and the store
\* is what it was; it is never taken for an empty log.
C4_CorruptStoreIsFatal ==
    (~backfill /\ prior = Corrupt /\ pc \notin {"NotStarted", "Loading"})
        => (pc = "Exited" /\ exit_code # 0 /\ store = Corrupt)

\* C5: a save that does not complete (the write fails part-way, or the run is
\* interrupted during it) leaves the complete prior log in the store: a run
\* that ended in failure left the store what it was when the run started.
C5_FailedSaveKeepsPrior ==
    (pc = "Exited" /\ exit_code # 0 /\ prior.file = "list" /\ Len(prior.data) > 0)
        => store = prior

AllHistoriesFailed ==
    /\ DOMAIN fetched = Indicators
    /\ \A id \in Indicators : fetched[id] = None

\* C6: when the history fetch of every indicator fails, the panel builder
\* returns no rows (not rows of nulls) and the run never writes the store,
\* which stays what it was before the run.
C6_TotalFailureLeavesStore ==
    (backfill /\ pc \notin {"NotStarted", "Backfilling"} /\ AllHistoriesFailed)
        => /\ Len(records) = 0
           /\ pc \in {"Trimming", "Checking", "Exited"}
           /\ written = 0
           /\ store = prior

\* a backfill with every fetch failed ended, on top of a store that held a log
C6_Witness ==
    /\ backfill /\ pc = "Exited" /\ exit_code = 0
    /\ AllHistoriesFailed
    /\ prior.file = "list" /\ Len(prior.data) = 2
    /\ store = prior

\* C7: a backfill that reconstructs zero records is fatal: the process exits
\* with a non-zero status.
C7_EmptyBackfillExitsNonZero ==
    (backfill /\ pc = "Exited" /\ Len(records) = 0) => exit_code # 0

\* the positions of recs that are inside the window at time now
InWindow(recs, now) == {i \in 1..Len(recs) : Timestamp(recs[i]) >= now - Window}

\* C8: trim is a pure filter: the result holds exactly the records at or after
\* now - W, each unchanged and in its original order (one exactly at the cutoff
\* is kept, an older one dropped), and the list that was loaded is untouched.
C8_TrimIsFilter ==
    [][(pc = "Trimming" /\ pc' \in {"Saving", "Checking"}) =>
          LET keep == InWindow(records, clock)
          IN  /\ Len(records') = Cardinality(keep)
              /\ \A i \in keep :
                    records'[Cardinality({j \in keep : j <= i})] = records[i]
              /\ \A k \in 1..Len(records') : Timestamp(records'[k]) >= clock - Window
              /\ loaded' = loaded]_vars

\* an append run trimmed a log of an older record and one exactly at the cutoff
C8_Witness ==
    /\ ~backfill /\ pc = "Saving"
    /\ Len(loaded) = 2 /\ Len(records) = 2
    /\ Timestamp(loaded[1]) < clock - Window
    /\ Timestamp(records[1]) = clock - Window
    /\ records[1] = loaded[2]

AfterSnapshot == ~backfill /\ pc \in {"Merging", "Trimming", "Saving", "Writing"}

\* C9: in append mode an indicator whose fetch is unavailable carries the value
\* of the last record of the loaded log (null when the log is empty or that
\* record has no value for it); an indicator that was fetched carries the
\* fetched value.
C9_FallbackToLastStored ==
    AfterSnapshot =>
        \A id \in Indicators :
            snapshot[id] =
                IF fetched[id] # None THEN fetched[id]
                ELSE IF Len(loaded) = 0 THEN None
                ELSE IF id \in DOMAIN loaded[Len(loaded)] THEN loaded[Len(loaded)][id]
                ELSE None

\* one indicator fell back to the stored value, another kept its fetched value
C9_Witness ==
    /\ AfterSnapshot
    /\ Len(loaded) > 0
    /\ fetched["M2SL"] = None /\ snapshot["M2SL"] = Stored
    /\ DOMAIN loaded[Len(loaded)] = Indicators \cup {"timestamp"}
    /\ loaded[Len(loaded)]["DXY"] = Stored
    /\ IsFloat(fetched["DXY"]) /\ snapshot["DXY"] = fetched["DXY"]
    /\ fetched["TNX"] = None /\ snapshot["TNX"] = Stored

\* the append run ended with one new snapshot, stamped during the run, at the
\* end of the saved log
AppendPersisted ==
    /\ pc = "Exited" /\ exit_code = 0
    /\ written = 1
    /\ store = Yaml(records)
    /\ Len(records) >= 1
    /\ records[Len(records)] = snapshot
    /\ Timestamp(snapshot) \in runStart..clock
    /\ Len(records) <= Len(loaded) + 1
    /\ \A k \in 1..(Len(records) - 1) :
          /\ \E i \in 1..Len(loaded) : records[k] = loaded[i]
          /\ Timestamp(records[k]) >= clock - MaxRunTicks - Window

\* C10: in append mode no combination of per-indicator fetch failures (all of
\* them failing included) aborts the cycle: a run that starts fetching ends
\* Persisted, with exactly one new snapshot appended to the trimmed log.
C10_AppendAlwaysPersists ==
    [](( ~backfill /\ pc = "Fetching") => <>AppendPersisted)

\* every indicator failed, nothing was stored before, and the run persisted
C10_Witness ==
    /\ AppendPersisted
    /\ ~backfill
    /\ \A id \in Indicators : fetched[id] = None
    /\ \A id \in Indicators : snapshot[id] = None

\* the log a run holds once it is merged and trimmed: in append mode the loaded
\* log plus the snapshot, trimmed at some instant of the run; in backfill mode
\* a non-empty list of records inside the window
FullLog ==
    IF backfill
    THEN /\ Len(records) > 0
         /\ \A k \in 1..Len(records) : Timestamp(records[k]) >= runStart - Window
    ELSE \E t \in runStart..clock : records = trim_history(Append(loaded, snapshot), t)

\* C11: a run writes the store at most once, and only after every indicator
\* was fetched and the full log was merged and trimmed; a run that was
\* cancelled or failed before that point has written nothing and the store is
\* what it was when the run started.
C11_SingleWriteAfterTrim ==
    /\ written <= 1
    /\ written = 0 => store = prior
    /\ store # prior => pc \in {"Writing", "Exited"}
    /\ written = 1 =>
          /\ pc \in {"Writing", "Exited"}
          /\ DOMAIN fetched = Indicators
          /\ FullLog
          /\ (pc = "Exited" /\ exit_code = 0) => store = Yaml(records)

\* an append run trimmed one of two loaded records, wrote once and ended
C11_Witness ==
    /\ ~backfill /\ pc = "Exited" /\ exit_code = 0
    /\ written = 1
    /\ Len(loaded) = 2 /\ Len(records) = 2
    /\ store = Yaml(records) /\ store # prior

(***************************************************************************)
(* Claims about the panel builder (Spec)                                   *)
(***************************************************************************)
\* the step of a backfill run that builds the panel and flattens it
BackfillStep == pc = "Backfilling" /\ pc' = "Trimming"

\* recs holds one record per day of s..t, ascending, each stamped midnight
Dense(recs, s, t) ==
    /\ Len(recs) = t - s + 1
    /\ \A k \in 1..Len(recs) : recs[k]["timestamp"] = midnight_Z(s + k - 1)

\* the days of s..t on which the fetched history h of one indicator has a value
ObservedDays(h, s, t) ==
    IF h = None THEN {}
    ELSE {d \in DOMAIN h.series : d \in s..t /\ ~isna(h.series[d])}

\* the day of obs whose value day d shows after a forward-then-back fill:
\* d itself, else the latest earlier one, else the earliest later one
NearestObserved(obs, d) ==
    LET earlier == {e \in obs : e < d}
    IN  IF d \in obs THEN d
        ELSE IF earlier # {} THEN CHOOSE e \in earlier : \A g \in earlier : g <= e
        ELSE CHOOSE e \in obs : \A g \in obs : e <= g

IsPanel == fn = "fetch_all_history"

Grid == request.start_date..request.today

\* the history one indicator's fetch returned for the request (None or a series)
History(id) == history_of(request.legacy, request.henv, id, request.start_date)

\* the grid days on which an indicator was observed
Observed(id) == ObservedDays(History(id), request.start_date, request.today)

\* C13: after fill, a column with at least one observation on a grid day is
\* non-null on every grid day, and a column with no observation on any grid
\* day is null in every row: no column of the output is partly null.
C13_NoPartlyNullColumn ==
    IsPanel =>
        /\ \A id \in Indicators :
              IF Observed(id) # {}
              THEN /\ DOMAIN result.frame = Grid
                   /\ \A d \in Grid : ~isna(result.frame[d][id])
                   /\ \A k \in 1..Len(result.records) : IsFloat(result.records[k][id])
              ELSE /\ \A d \in DOMAIN result.frame : isna(result.frame[d][id])
                   /\ \A k \in 1..Len(result.records) : result.records[k][id] = None

\* a column observed only on the last grid day is filled back over the whole
\* grid, next to a column that stays null
C13_Witness ==
    /\ IsPanel
    /\ request.start_date = 0 /\ request.today = MaxDay
    /\ Observed("DXY") = {MaxDay}
    /\ Observed("M2SL") = {}
    /\ Len(result.records) = MaxDay + 1
    /\ \A k \in 1..Len(result.records) :
          IsFloat(result.records[k]["DXY"]) /\ result.records[k]["M2SL"] = None

\* the observed day whose value day d of the request's grid shows after fill
FillSource(id, d) == NearestObserved(Observed(id), d)

\* C14: fill is forward-then-back: a grid day without an observation takes the
\* value of the latest observation on an earlier grid day when there is one,
\* otherwise that of the earliest observation on a later grid day; an observed
\* day keeps its own value.
C14_ForwardThenBack ==
    IsPanel =>
        \A id \in Indicators : \A d \in Grid :
            Observed(id) # {} =>
                /\ d \in DOMAIN result.frame
                /\ result.frame[d][id] = History(id).series[FillSource(id, d)]

\* observed on the first and on the third day of a three-day grid with
\* different values: the second day shows the first day's value
C14_Witness ==
    /\ IsPanel
    /\ request.today = request.start_date + 2
    /\ Observed("M2SL") = {request.start_date, request.today}
    /\ History("M2SL").series[request.start_date] # History("M2SL").series[request.today]
    /\ result.frame[request.start_date + 1]["M2SL"] = History("M2SL").series[request.start_date]

(***************************************************************************)
(* Claims about the persisted log (Spec)                                   *)
(***************************************************************************)
\* the value day d shows in the filled column built from the fetched history h
FilledValue(h, s, t, d) ==
    IF ObservedDays(h, s, t) = {} THEN None
    ELSE h.series[NearestObserved(ObservedDays(h, s, t), d)]

\* the log a backfill yields from the fetched histories alone, when the panel
\* is built at time tb and trimmed at time tt
RebuiltLog(tb, tt) ==
    LET s    == date(tb - Window)
        t    == date(tb)
        days == SortedDays({d \in s..t : timedelta(d) >= tt - Window})
    IN  [k \in 1..Len(days) |->
            with_timestamp([id \in Indicators |-> FilledValue(fetched[id], s, t, days[k])],
                           midnight_Z(days[k]))]

BackfillPersisted == backfill /\ pc = "Exited" /\ exit_code = 0 /\ written = 1

\* C15: after a successful backfill run the store holds exactly the trimmed
\* backfill records, rebuilt from the fetched histories alone: nothing was
\* loaded, and nothing of the previous store is merged into the result.
C15_BackfillReplaces ==
    BackfillPersisted =>
        /\ store = Yaml(records)
        /\ Len(loaded) = 0
        /\ \E tb \in runStart..clock : \E tt \in tb..clock :
              store.data = RebuiltLog(tb, tt)

\* a backfill succeeded on top of a stored log of two records
C15_Witness ==
    /\ BackfillPersisted
    /\ prior.file = "list" /\ Len(prior.data) = 2
    /\ store.file = "list" /\ Len(store.data) >= HISTORY_DAYS
    /\ store # prior

C17_LoadAbsentAndLegacy ==
    fn = "load" =>
        /\ ~request.file.exists => result = [data |-> <<>>]
        /\ (request.file.exists /\ request.file.doc.kind = "map") =>
              \E r \in LogRecords :
                  /\ request.file.doc = DumpOne(r)
                  /\ result = [data |-> <<r>>]

\* a file holding one mapping was loaded as a list of that one record
C17_Witness ==
    /\ fn = "load"
    /\ request.file.exists /\ request.file.doc.kind = "map"
    /\ result # Raised
    /\ Len(result.data) = 1
    /\ result.data[1]["M2SL"] = Float(10)
    /\ result.data[1]["timestamp"] = isoformat_Z(1)

\* a log is ascending by timestamp
Ascending(l) ==
    \A i \in 1..Len(l) : \A j \in 1..Len(l) :
        i < j => Timestamp(l[i]) <= Timestamp(l[j])

\* C18: after append the log is in ascending timestamp order: for any
\* ascending loaded log and any value of 'now' the new snapshot ends up at its
\* timestamp-ordered position, so every log about to be persisted is ascending.
C18_AppendKeepsAscending ==
    (fn = "append" /\ Ascending(request.log)) => Ascending(result.data)

(***************************************************************************)
(* Claims about successive runs (SpecCycles)                               *)
(***************************************************************************)
\* C19: after trim no two records of the store have the same timestamp, after
\* any sequence of append and backfill cycles, an append whose 'now' equals
\* the timestamp of a record already in the log included.
C19_TimestampsUnique ==
    store.file = "list" =>
        \A i \in 1..Len(store.data) : \A j \in 1..Len(store.data) :
            i # j => store.data[i]["timestamp"] # store.data[j]["timestamp"]

\* the value upstream reported now, as the source client returns it
RawCurrent(id) ==
    IF id = "M2SL"
    THEN (IF request.legacy THEN get_fred(request.env.fred[id])
          ELSE fetch_fred_current(request.env.fred[id]))
    ELSE (IF request.legacy THEN get_yahoo(symbols(id), request.env.quote).value
          ELSE fetch_yahoo_current(symbols(id), request.env.quote).value)

\* the series upstream reported, as the source client returns it
RawHistory(id) ==
    IF id = "M2SL"
    THEN (IF request.legacy THEN get_fred_history(request.henv.fred[id], request.start_date)
          ELSE fetch_fred_history(request.henv.fred[id], request.start_date))
    ELSE (IF request.legacy THEN get_yahoo_history(symbols(id), request.henv.quote)
          ELSE fetch_yahoo_history(symbols(id), request.henv.quote))

\* raw value times the indicator's factor: the configured display_scale in the
\* modular variant, the fixed 1/10 of TNX in update_data.py, else none
TimesFactor(id, v) ==
    IF request.legacy
    THEN (IF id = "TNX" THEN Float(v.float \div 10) ELSE v)
    ELSE Float(v.float * display_scale(id))

\* C20: the current-value fetch and every point of the historical fetch equal
\* the raw upstream value times the indicator's scale factor: the same factor
\* in append mode and in backfill mode, and no factor where none is configured.
C20_SameScaleBothModes ==
    /\ fn = "fetch_all_current" =>
          \A id \in Indicators :
              IF IsFloat(RawCurrent(id))
              THEN result.values[id] = TimesFactor(id, RawCurrent(id))
              ELSE result.values[id] = RawCurrent(id)
    /\ IsPanel =>
          \A id \in Indicators :
              RawHistory(id) # None =>
                  \A d \in DOMAIN RawHistory(id).series \cap Grid :
                      IsFloat(RawHistory(id).series[d]) =>
                          result.frame[d][id] = TimesFactor(id, RawHistory(id).series[d])

\* a scaled and an unscaled indicator, each observed on a grid day
C20_Witness ==
    /\ IsPanel /\ ~request.legacy
    /\ display_scale("M2SL") # 1 /\ display_scale("TNX") = 1
    /\ RawHistory("M2SL") # None /\ RawHistory("TNX") # None
    /\ request.today \in DOMAIN RawHistory("M2SL").series
    /\ request.today \in DOMAIN RawHistory("TNX").series
    /\ result.frame[request.today]["M2SL"]
          = Float(RawHistory("M2SL").series[request.today].float * display_scale("M2SL"))
    /\ result.frame[request.today]["TNX"] = RawHistory("TNX").series[request.today]

\* C21: for a macro-kind indicator the candidate chain and the scale factor
\* compose: when the first candidate fails and the second returns v, the
\* current value of the indicator is v times the scale.
C21_MacroChainTimesScale ==
    (/\ fn = "fetch_macro_current"
     /\ request.up[request.candidates[1]].kind \in {"error", "empty"}
     /\ request.up[request.candidates[2]].kind = "rows"
     /\ IsFloat(request.up[request.candidates[2]].cell))
        => result = Float(request.up[request.candidates[2]].cell.float * request.scale)

\* C22: every snapshot of either mode (the result of fetch_all_current and
\* every backfill record) has an entry for every indicator id of the catalog,
\* whichever fetches failed.
C22_EveryIndicatorKeyed ==
    /\ fn = "fetch_all_current" => DOMAIN result.values = Indicators
    /\ fn = "fetch_all_history" =>
          \A i \in 1..Len(result.records) :
              DOMAIN result.records[i] = Indicators \cup {"timestamp"}

\* a backfill with records in which the fetch of one indicator gave nothing
C22_Witness ==
    /\ fn = "fetch_all_history"
    /\ result.records # <<>>
    /\ \E id \in Indicators :
          /\ history_of(request.legacy, request.henv, id, request.start_date) = None
          /\ \A i \in 1..Len(result.records) : result.records[i][id] = None

\* position of a file operation of process p in the history
OpAt(p, op) == CHOOSE i \in 1..Len(attempts) : attempts[i] = [proc |-> p, op |-> op]
BothExited == \A p \in Procs : pc[p] = "Exited"
\* both new snapshots are in the log, p's before q's
HoldsBoth(data, p, q) ==
    \E i, j \in 1..Len(data) : i < j /\ data[i] = snapshot[p] /\ data[j] = snapshot[q]
\* both processes load before either opens the file for writing; p saves first
Raced(p, q) ==
    /\ BothExited /\ p # q
    /\ OpAt(p, "load") < OpAt(q, "open") /\ OpAt(q, "load") < OpAt(p, "open")
    /\ OpAt(p, "save") < OpAt(q, "save")
\* p has saved before q loads
Serialised(p, q) == BothExited /\ p # q /\ OpAt(p, "save") < OpAt(q, "load")

NoRepeat(calls) == \A i, j \in 1..Len(calls) : i # j => calls[i] # calls[j]

AppendSaved == pc = "Exited" /\ exit_code = 0 /\ ~backfill /\ written = 1

\* C25: in append mode the persisted log is the loaded log restricted to the
\* records inside the retention window, in their original order and unchanged,
\* followed by the one new snapshot.
C25_AppendAndTrimOnly ==
    AppendSaved =>
        \E now \in runStart..clock :
            LET keep == InWindow(loaded, now)
            IN  /\ store.file = "list"
                /\ Len(store.data) = Cardinality(keep) + 1
                /\ \A i \in keep :
                      store.data[Cardinality({j \in keep : j <= i})] = loaded[i]
                /\ store.data[Len(store.data)] = snapshot

\* a saved append run that dropped the older of two loaded records and kept the other
C25_Witness ==
    /\ AppendSaved
    /\ Len(loaded) = 2 /\ Len(store.data) = 2
    /\ store.data[1] = loaded[2] /\ store.data[2] = snapshot

\* a lookup that gave no price: it raised, or it came back empty
NoPrice(resp) == resp.kind \in {"error", "empty"}
Called(sym, endpoint) ==
    \E k \in 1..Len(attempts) : attempts[k] = [symbol |-> sym, endpoint |-> endpoint]

\* C26: when the primary quote lookup of a candidate symbol fails, the direct
\* endpoint is queried for the same symbol and its price is returned if it
\* succeeds; the chain moves to the next symbol only after both lookups of the
\* current symbol failed.
C26_DirectAfterPrimaryFailure ==
    IsYahooCurrent =>
        /\ \A i \in Attempted :
             LET sym == request.symbols[i]
             IN  NoPrice(request.up[sym].primary) =>
                    /\ Called(sym, "direct")
                    /\ request.up[sym].direct.kind = "rows" =>
                          result = request.up[sym].direct.cell
        /\ \A k \in 1..(Len(attempts) - 1) :
             attempts[k + 1].symbol # attempts[k].symbol =>
                 /\ Called(attempts[k].symbol, "yfinance")
                 /\ Called(attempts[k].symbol, "direct")
                 /\ NoPrice(request.up[attempts[k].symbol].primary)
                 /\ NoPrice(request.up[attempts[k].symbol].direct)

\* the days, inside the grid or not, of the history fetched for an indicator
FetchedDays(id) == IF History(id) = None THEN {} ELSE DOMAIN History(id).series

\* the column of an indicator as it stands after alignment, before fill
Aligned(id) == column(request.legacy, request.henv, id, request.start_date, Grid)

\* C27: alignment precedes fill: an observation dated before start_date or
\* after today is in no backfill record and behind no output value, and a
\* grid day absent from the fetch is null before fill.
C27_AlignBeforeFill ==
    IsPanel =>
        /\ \A k \in 1..Len(result.records) : result.records[k]["timestamp"].date \in Grid
        /\ DOMAIN result.frame \subseteq Grid
        /\ \A id \in Indicators :
              /\ DOMAIN Aligned(id) = Grid
              /\ \A d \in Grid \ FetchedDays(id) : isna(Aligned(id)[d])
              /\ \A d \in DOMAIN result.frame :
                    ~isna(result.frame[d][id]) =>
                        \E e \in Grid \cap FetchedDays(id) :
                            result.frame[d][id] = History(id).series[e]
              /\ Grid \cap FetchedDays(id) = {} =>
                    \A k \in 1..Len(result.records) : result.records[k][id] = None

\* a quote history with one observation before start_date and one on the last
\* grid day: the first grid day shows the later value, filled backward
C27_Witness ==
    /\ IsPanel
    /\ request.start_date = 1 /\ request.today = MaxDay
    /\ FetchedDays("TNX") = {0, MaxDay}
    /\ History("TNX").series[0] # History("TNX").series[MaxDay]
    /\ result.frame[1]["TNX"] = History("TNX").series[MaxDay]

\* the step is a whole append run on a store that holds a log with a last record
AppendOnLog ==
    /\ pc = "NotStarted" /\ pc' = "Exited" /\ ~backfill'
    /\ store.file = "list" /\ Len(store.data) > 0

\* C28: once the last record of the log holds a non-null value for an
\* indicator, the snapshot every later append cycle adds holds a non-null value
\* for it too, whatever its fetch returns.
C28_NullNeverReappears ==
    [][AppendOnLog =>
          \A id \in Indicators :
              dict_get(store.data[Len(store.data)], id) # None =>
                  /\ snapshot'[id] # None
                  /\ store'.data[Len(store'.data)][id] # None
                  /\ fetched'[id] = None => snapshot'[id] = store.data[Len(store.data)][id]]_vars

\* the third append cycle in a row: the last two fetched nothing and the
\* snapshot still carries the value of the first
C28_Witness ==
    /\ pc = "Exited" /\ ~backfill /\ cycle >= 3
    /\ Len(loaded) >= 2
    /\ \A id \in Indicators : fetched[id] = None
    /\ \A id \in Indicators : loaded[Len(loaded) - 1][id] = loaded[Len(loaded)][id]
    /\ IsFloat(snapshot["M2SL"]) /\ IsFloat(snapshot["DXY"])
    /\ store.data[Len(store.data)] = snapshot

\* a whole backfill run has just saved its records
BackfillSaved == pc = "Exited" /\ backfill /\ written = 1

\* the day the panel builder of the run took as today
BackfillToday ==
    IF variant = "legacy" THEN date(runStart) ELSE local_date(runStart, request.utcoffset)

\* the first day of the saved log: start_date itself only for a run at midnight
FirstSavedDay ==
    IF runStart % TicksPerDay = 0 THEN date(runStart - Window)
    ELSE date(runStart - Window) + 1

AppendRun == pc = "NotStarted" /\ pc' = "Exited" /\ ~backfill'

\* the value of indicator id in the last record of the store, None without one
LastStored(id) ==
    IF store.file = "list" /\ Len(store.data) > 0
    THEN dict_get(store.data[Len(store.data)], id)
    ELSE None

\* the upstream value of the cycles (10) times the factor of the variant, once
ScaledOnce(id) ==
    IF variant = "legacy" THEN (IF id = "TNX" THEN div10(Float(10)) ELSE Float(10))
    ELSE Float(10 * display_scale(id))

\* C30: in append mode the scale factor is applied to a freshly fetched value
\* only: a value taken over from the last stored snapshot is copied unchanged,
\* so after any number of failed cycles the stored value is still the last
\* fetched raw value times the factor, once.
C30_FallbackNotRescaled ==
    [][AppendRun =>
          \A id \in Indicators :
              IF fetched'[id] = None
              THEN snapshot'[id] = LastStored(id)
              ELSE /\ snapshot'[id] = fetched'[id]
                   /\ IsFloat(fetched'[id]) => fetched'[id] = ScaledOnce(id)]_vars

\* a fetched cycle followed by two failed ones: the scaled indicator still
\* holds its value scaled once
C30_Witness ==
    /\ pc = "Exited" /\ ~backfill /\ variant = "refactored"
    /\ Len(loaded) = 2 /\ Len(store.data) = 3
    /\ \A id \in Indicators : fetched[id] = None
    /\ loaded[1]["DXY"] = Float(10) /\ loaded[1]["M2SL"] = ScaledOnce("M2SL")
    /\ display_scale("M2SL") # 1
    /\ \A k \in 1..3 : store.data[k]["M2SL"] = ScaledOnce("M2SL")

====
